---- MODULE Spec2Model ----
(***************************************************************************)
(* Query and aggregation layer of the admin console (admin_api/queries.py) *)
(* over the four relations of admin_models.py.  The relations are the      *)
(* state; the console only reads them, the product's write path appends    *)
(* rows.  res is the response to the latest query answered against the     *)
(* present contents of the relations.  settings is the configuration of    *)
(* admin_api/settings.py and req the request in progress at the HTTP       *)
(* boundary (admin_api/main.py) or in the console (admin_app.py).          *)
(***************************************************************************)
EXTENDS Integers, Sequences, FiniteSets, TLC

VARIABLES users, iap, ledger, events, res, settings, req

vars == <<users, iap, ledger, events, res, settings, req>>

(* ------------------------------ bounds -------------------------------- *)
\* rows in the store, all four relations together
MaxRows == 3
\* window bounds are 1..MaxTime
MaxTime == 3
\* largest limit passed to get_errors
MaxLimit == 2

Times == 1..MaxTime
\* created_at of the rows written: before, at and after a window bound
RowTimes == {1, 2}
UserIds == {1, 2}
Windows == Times \X Times
ValidWindows == {w \in Windows : w[1] < w[2]}
Segments == {"all", "paying", "non_paying"}

(* --------------------------- nullable columns -------------------------- *)
\* a nullable column holds Null or Some(v)
Null == <<>>
Some(v) == <<v>>

(* ------------------------------ text ----------------------------------- *)
CharAt(s, i) == SubSeq(s, i, i)

\* the upper-case letters and their lower-case forms
ToLower ==
    [ A |-> "a", B |-> "b", C |-> "c", D |-> "d", E |-> "e", F |-> "f", G |-> "g",
      H |-> "h", I |-> "i", J |-> "j", K |-> "k", L |-> "l", M |-> "m", N |-> "n",
      O |-> "o", P |-> "p", Q |-> "q", R |-> "r", S |-> "s", T |-> "t", U |-> "u",
      V |-> "v", W |-> "w", X |-> "x", Y |-> "y", Z |-> "z" ]

LowerChar(c) == IF c \in DOMAIN ToLower THEN ToLower[c] ELSE c

\* SQL LIKE: % matches any run of characters, _ matches exactly one
RECURSIVE LikeAt(_, _, _, _)
LikeAt(s, i, p, j) ==
    IF j > Len(p) THEN i > Len(s)
    ELSE IF CharAt(p, j) = "%"
         THEN \E k \in i..(Len(s) + 1) : LikeAt(s, k, p, j + 1)
    ELSE IF CharAt(p, j) = "_"
         THEN i <= Len(s) /\ LikeAt(s, i + 1, p, j + 1)
    ELSE i <= Len(s) /\ CharAt(s, i) = CharAt(p, j) /\ LikeAt(s, i + 1, p, j + 1)

like(s, p) == LikeAt(s, 1, p, 1)

\* SQL ILIKE: LIKE with letters compared without regard to case
RECURSIVE ILikeAt(_, _, _, _)
ILikeAt(s, i, p, j) ==
    IF j > Len(p) THEN i > Len(s)
    ELSE IF CharAt(p, j) = "%"
         THEN \E k \in i..(Len(s) + 1) : ILikeAt(s, k, p, j + 1)
    ELSE IF CharAt(p, j) = "_"
         THEN i <= Len(s) /\ ILikeAt(s, i + 1, p, j + 1)
    ELSE /\ i <= Len(s)
         /\ LowerChar(CharAt(s, i)) = LowerChar(CharAt(p, j))
         /\ ILikeAt(s, i + 1, p, j + 1)

ilike(s, p) == ILikeAt(s, 1, p, 1)

(* ------------------------- three-valued logic -------------------------- *)
\* SQL truth values; a WHERE clause keeps a row only when it is "T"
in_(column, ids) ==
    IF column = Null THEN "U" ELSE IF column[1] \in ids THEN "T" ELSE "F"

not_(b) == IF b = "T" THEN "F" ELSE IF b = "F" THEN "T" ELSE "U"

(* ----------------------------- constants ------------------------------- *)
FUNNEL_STEPS ==
    << "upload_started", "face_analysis_success", "llm_core_generation_success",
       "llm_image_prompt_success", "image_generation_success" >>

JOB_STARTED_EVENTS == {"generate_requested", "upload_started"}
JOB_SUCCEEDED_EVENTS == {"job_succeeded", "image_generation_success"}
JOB_FAILED_EVENTS == {"job_failed", "image_generation_failed", "llm_generation_failed"}

(* --------------------------- segmentation ------------------------------ *)
paying_user_ids_subquery ==
    {iap[i].user_id : i \in {k \in DOMAIN iap : iap[k].status = "verified"}}
    \cup
    {ledger[i].user_id :
        i \in {k \in DOMAIN ledger :
                 like(ledger[k].type, "topup_%") /\ ledger[k].delta > 0}}

\* segment_clause with the negation of the non_paying branch left out
segment_clause_unnegated(segment, column) ==
    IF segment = "all" THEN "none"
    ELSE in_(column, paying_user_ids_subquery)

\* "none" is Python's None: apply_filters adds no clause for it
segment_clause(segment, column) ==
    IF segment = "all" THEN "none"
    ELSE IF segment = "paying" THEN in_(column, paying_user_ids_subquery)
    ELSE not_(in_(column, paying_user_ids_subquery))

apply_filters(clause) == clause = "none" \/ clause = "T"

\* the window with its end included
InWindow_closed(t, start, end) == t >= start /\ t <= end

InWindow(t, start, end) == t >= start /\ t < end

(* ------------------------------ overview ------------------------------- *)
\* a / b of two counts, b > 0, kept as the fraction in lowest terms
RECURSIVE Gcd(_, _)
Gcd(a, b) == IF b = 0 THEN a ELSE Gcd(b, a % b)

Div(a, b) == LET g == Gcd(a, b) IN [num |-> a \div g, den |-> b \div g]

Zero == [num |-> 0, den |-> 1]
One == [num |-> 1, den |-> 1]

new_users_stmt(start, end, segment) ==
    Cardinality({i \in DOMAIN users :
        /\ InWindow(users[i].created_at, start, end)
        /\ apply_filters(segment_clause(segment, Some(users[i].id)))})

active_users_stmt(start, end, segment) ==
    Cardinality({events[i].user_id : i \in {k \in DOMAIN events :
        /\ InWindow(events[k].created_at, start, end)
        /\ events[k].user_id # Null
        /\ apply_filters(segment_clause(segment, events[k].user_id))}})

\* the job count restricted to events that carry a user id
jobs_stmt_known_users(start, end, segment, names) ==
    Cardinality({i \in DOMAIN events :
        /\ InWindow(events[i].created_at, start, end)
        /\ events[i].event \in names
        /\ events[i].user_id # Null
        /\ apply_filters(segment_clause(segment, events[i].user_id))})

jobs_stmt(start, end, segment, names) ==
    Cardinality({i \in DOMAIN events :
        /\ InWindow(events[i].created_at, start, end)
        /\ events[i].event \in names
        /\ apply_filters(segment_clause(segment, events[i].user_id))})

\* the ratio recomputed per segment, without the branch on the segment
conversion_naive(segment, active_users, paying_active_users) ==
    IF active_users = 0 THEN Zero ELSE Div(paying_active_users, active_users)

\* the branch on the segment taken before the test for no active user
conversion_segment_first(segment, active_users, paying_active_users) ==
    IF segment = "paying" THEN One
    ELSE IF segment = "non_paying" THEN Zero
    ELSE IF active_users = 0 THEN Zero
    ELSE Div(paying_active_users, active_users)

conversion(segment, active_users, paying_active_users) ==
    IF active_users = 0 THEN Zero
    ELSE IF segment = "all" THEN Div(paying_active_users, active_users)
    ELSE IF segment = "paying" THEN One
    ELSE Zero

get_overview_metrics(start, end, segment) ==
    LET active_users == active_users_stmt(start, end, segment)
        paying_active_users == active_users_stmt(start, end, "paying")
    IN [ new_users |-> new_users_stmt(start, end, segment),
         active_users |-> active_users,
         jobs_started |-> jobs_stmt(start, end, segment, JOB_STARTED_EVENTS),
         jobs_succeeded |-> jobs_stmt(start, end, segment, JOB_SUCCEEDED_EVENTS),
         jobs_failed |-> jobs_stmt(start, end, segment, JOB_FAILED_EVENTS),
         conversion_to_pay |-> conversion(segment, active_users, paying_active_users) ]

(* ----------------------------- user detail ----------------------------- *)
\* Null is Python's None: no such user
get_user_detail(user_id) ==
    IF \A i \in DOMAIN users : users[i].id # user_id THEN Null
    ELSE LET i == CHOOSE k \in DOMAIN users : users[k].id = user_id
         IN Some([id |-> users[i].id, created_at |-> users[i].created_at,
                  paying |-> (in_(Some(users[i].id), paying_user_ids_subquery) = "T")])

(* ------------------------------- funnel -------------------------------- *)
Range(f) == {f[i] : i \in DOMAIN f}

\* the grouped count query counting rows, not distinct users
counts_stmt_rows(start, end, segment) ==
    LET rows == {i \in DOMAIN events :
                    /\ InWindow(events[i].created_at, start, end)
                    /\ events[i].event \in Range(FUNNEL_STEPS)
                    /\ events[i].user_id # Null
                    /\ apply_filters(segment_clause(segment, events[i].user_id))}
    IN [e \in {events[i].event : i \in rows} |->
           Cardinality({k \in rows : events[k].event = e})]

\* the grouped count query: one row per event that has a matching row
counts_stmt(start, end, segment) ==
    LET rows == {i \in DOMAIN events :
                    /\ InWindow(events[i].created_at, start, end)
                    /\ events[i].event \in Range(FUNNEL_STEPS)
                    /\ events[i].user_id # Null
                    /\ apply_filters(segment_clause(segment, events[i].user_id))}
    IN [e \in {events[i].event : i \in rows} |->
           Cardinality({events[i].user_id : i \in {k \in rows : events[k].event = e}})]

\* the ratio clamped to 1.0
step_conversion_clamped(count, previous_count) ==
    IF previous_count = Null THEN One
    ELSE IF previous_count[1] = 0 THEN Zero
    ELSE IF count > previous_count[1] THEN One
    ELSE Div(count, previous_count[1])

\* previous_count is Null (Python's None) before the first step
step_conversion(count, previous_count) ==
    IF previous_count = Null THEN One
    ELSE IF previous_count[1] = 0 THEN Zero
    ELSE Div(count, previous_count[1])

counts_get(counts, event) == IF event \in DOMAIN counts THEN counts[event] ELSE 0

RECURSIVE funnel_walk(_, _, _)
funnel_walk(counts, i, previous_count) ==
    IF i > Len(FUNNEL_STEPS) THEN <<>>
    ELSE LET event == FUNNEL_STEPS[i]
             count == counts_get(counts, event)
         IN << [event |-> event, count |-> count,
                conversion_from_prev |-> step_conversion(count, previous_count)] >>
            \o funnel_walk(counts, i + 1, Some(count))

get_funnel(start, end, segment) == funnel_walk(counts_stmt(start, end, segment), 1, Null)

(* ------------------------------- errors -------------------------------- *)
\* a member of the JSONB payload object: absent, JSON null, or a JSON string
JAbsent == [t |-> "absent", v |-> ""]
JNull == [t |-> "null", v |-> ""]
JStr(v) == [t |-> "string", v |-> v]

\* payload[key].astext, i.e. payload ->> key: SQL NULL for a NULL payload, a
\* missing key and a JSON null, the text of the value otherwise
astext(payload, key) ==
    IF payload = Null THEN Null
    ELSE IF payload[1][key].t = "string" THEN Some(payload[1][key].v)
    ELSE Null

\* the event names written to the log
EventNames ==
    Range(FUNNEL_STEPS) \cup JOB_STARTED_EVENTS \cup JOB_SUCCEEDED_EVENTS
    \cup JOB_FAILED_EVENTS \cup {"JOB_FAILED", "job_done"}

\* EventLog.event.ilike("%failed%"), decided once for each event name
FailedNames == {e \in EventNames : ilike(e, "%failed%")}

\* the same with a case-sensitive match
FailedNames_like == {e \in EventNames : like(e, "%failed%")}

\* the selection with a case-sensitive match of the event name
is_error_event_like(row) ==
    \/ row.event \in FailedNames_like
    \/ astext(row.payload, "error_type") # Null
    \/ astext(row.payload, "error_message") # Null

is_error_event(row) ==
    \/ row.event \in FailedNames
    \/ astext(row.payload, "error_type") # Null
    \/ astext(row.payload, "error_message") # Null

error_rows(start, end) ==
    {i \in DOMAIN events :
        InWindow(events[i].created_at, start, end) /\ is_error_event(events[i])}

\* grouping that leaves error_message out of the key
group_key_no_message(row) ==
    <<row.event, astext(row.payload, "error_type"), Null>>

group_key(row) ==
    <<row.event, astext(row.payload, "error_type"), astext(row.payload, "error_message")>>

\* order of text values, character by character
Alphabet == "-0123456789_abcdefghijklmnopqrstuvwxyz"
CharRank(c) == CHOOSE i \in 1..Len(Alphabet) : CharAt(Alphabet, i) = c

RECURSIVE TextLeqAt(_, _, _)
TextLeqAt(a, b, i) ==
    IF i > Len(a) THEN TRUE
    ELSE IF i > Len(b) THEN FALSE
    ELSE IF CharAt(a, i) = CharAt(b, i) THEN TextLeqAt(a, b, i + 1)
    ELSE CharRank(CharAt(a, i)) < CharRank(CharAt(b, i))

TextLeq(a, b) == TextLeqAt(a, b, 1)

\* func.min over a nullable text column: NULLs are skipped, NULL when none is left
min_(values) ==
    LET present == {v[1] : v \in {x \in values : x # Null}}
    IN IF present = {} THEN Null
       ELSE Some(CHOOSE a \in present : \A b \in present : TextLeq(a, b))

\* the samples taken over every selected row, not over the group's members
error_groups_window_samples(start, end) ==
    LET rows == error_rows(start, end)
    IN { LET members == {i \in rows : group_key(events[i]) = k}
         IN [ event |-> k[1], error_type |-> k[2], error_message |-> k[3],
              count |-> Cardinality(members),
              sample_trace_id |-> min_({events[i].trace_id : i \in rows}),
              sample_job_id |-> min_({events[i].job_id : i \in rows}) ]
         : k \in {group_key(events[i]) : i \in rows} }

error_groups(start, end) ==
    LET rows == error_rows(start, end)
    IN { LET members == {i \in rows : group_key(events[i]) = k}
         IN [ event |-> k[1], error_type |-> k[2], error_message |-> k[3],
              count |-> Cardinality(members),
              sample_trace_id |-> min_({events[i].trace_id : i \in members}),
              sample_job_id |-> min_({events[i].job_id : i \in members}) ]
         : k \in {group_key(events[i]) : i \in rows} }

Min(a, b) == IF a < b THEN a ELSE b

\* ORDER BY count DESC names no second key: every arrangement of the groups
\* with non-increasing counts is a possible output order
error_orderings(start, end) ==
    LET groups == error_groups(start, end)
        n == Cardinality(groups)
    IN {o \in [1..n -> groups] :
           /\ \A i, j \in 1..n : i # j => o[i] # o[j]
           /\ \A i \in 1..n : \A j \in 1..n : i < j => o[i].count >= o[j].count}

\* the pages LIMIT can cut from the ordered groups
error_pages(start, end, limit) ==
    {SubSeq(o, 1, Min(limit, Len(o))) : o \in error_orderings(start, end)}

total_stmt(start, end) == Cardinality(error_rows(start, end))

RECURSIVE SumCounts(_)
SumCounts(items) ==
    IF items = <<>> THEN 0 ELSE items[1].count + SumCounts(Tail(items))

\* total taken from the page that was returned
get_errors_page_total(start, end, items) ==
    [total |-> SumCounts(items), items |-> items]

\* get_errors for one of the pages the store may return
get_errors(start, end, items) ==
    [total |-> total_stmt(start, end), items |-> items]

(* ------------------------------ listings ------------------------------- *)
\* ORDER BY created_at DESC names no second key: every arrangement of the rows
\* ids of table in which created_at never increases is a possible output order

\* the rows arranged with created_at never decreasing, whatever the statement asked
order_by_desc_reversed(table, ids) ==
    LET n == Cardinality(ids)
    IN {o \in [1..n -> ids] :
           /\ \A i, j \in 1..n : i # j => o[i] # o[j]
           /\ \A i \in 1..n : \A j \in 1..n :
                 i < j => table[o[i]].created_at <= table[o[j]].created_at}

order_by_desc(table, ids) ==
    LET n == Cardinality(ids)
    IN {o \in [1..n -> ids] :
           /\ \A i, j \in 1..n : i # j => o[i] # o[j]
           /\ \A i \in 1..n : \A j \in 1..n :
                 i < j => table[o[i]].created_at >= table[o[j]].created_at}

\* ORDER BY created_at ASC, likewise without a second key
order_by_asc(table, ids) ==
    LET n == Cardinality(ids)
    IN {o \in [1..n -> ids] :
           /\ \A i, j \in 1..n : i # j => o[i] # o[j]
           /\ \A i \in 1..n : \A j \in 1..n :
                 i < j => table[o[i]].created_at <= table[o[j]].created_at}

\* .offset(offset).limit(limit) of an ordered result
offset_limit(o, offset, limit) == SubSeq(o, offset + 1, Min(offset + limit, Len(o)))

\* "if start:" / "if end:": the bound is applied only when one is given
from_start(created_at, start) == start = Null \/ created_at >= start[1]
before_end(created_at, end) == end = Null \/ created_at < end[1]

\* "if trace_id:" / "if job_id:": column == value when a value is given; a NULL
\* column never equals it
equals_filter(column, value) == value = Null \/ column = value

\* get_users with query = None
users_stmt(segment) ==
    {i \in DOMAIN users : apply_filters(segment_clause(segment, Some(users[i].id)))}

users_rows(segment, limit, offset) ==
    {offset_limit(o, offset, limit) : o \in order_by_desc(users, users_stmt(segment))}

user_item(i) ==
    [id |-> users[i].id, created_at |-> users[i].created_at,
     paying |-> (in_(Some(users[i].id), paying_user_ids_subquery) = "T")]

get_users(segment, limit, offset, rows) ==
    [total |-> Cardinality(users_stmt(segment)),
     items |-> [k \in DOMAIN rows |-> user_item(rows[k])]]

user_events_stmt(user_id, start, end, trace_id, job_id) ==
    {i \in DOMAIN events :
        /\ events[i].user_id = Some(user_id)
        /\ from_start(events[i].created_at, start)
        /\ before_end(events[i].created_at, end)
        /\ equals_filter(events[i].trace_id, trace_id)
        /\ equals_filter(events[i].job_id, job_id)}

user_events_rows(user_id, start, end, trace_id, job_id, limit, offset) ==
    {offset_limit(o, offset, limit) :
        o \in order_by_desc(events, user_events_stmt(user_id, start, end, trace_id, job_id))}

get_user_events(user_id, start, end, trace_id, job_id, rows) ==
    [total |-> Cardinality(user_events_stmt(user_id, start, end, trace_id, job_id)),
     items |-> [k \in DOMAIN rows |-> events[rows[k]]]]

user_credits_stmt(user_id, start, end) ==
    {i \in DOMAIN ledger :
        /\ ledger[i].user_id = user_id
        /\ from_start(ledger[i].created_at, start)
        /\ before_end(ledger[i].created_at, end)}

user_credits_rows(user_id, start, end) ==
    order_by_desc(ledger, user_credits_stmt(user_id, start, end))

get_user_credits(rows) == [k \in DOMAIN rows |-> ledger[rows[k]]]

user_iap_stmt(user_id, start, end) ==
    {i \in DOMAIN iap :
        /\ iap[i].user_id = user_id
        /\ from_start(iap[i].created_at, start)
        /\ before_end(iap[i].created_at, end)}

user_iap_rows(user_id, start, end) == order_by_desc(iap, user_iap_stmt(user_id, start, end))

get_user_iap(rows) == [k \in DOMAIN rows |-> iap[rows[k]]]

trace_events_rows(trace_id) ==
    order_by_asc(events, {i \in DOMAIN events : events[i].trace_id = Some(trace_id)})

get_trace_events(rows) == [k \in DOMAIN rows |-> events[rows[k]]]

job_events_rows(job_id) ==
    order_by_asc(events, {i \in DOMAIN events : events[i].job_id = Some(job_id)})

get_job_events(rows) == [k \in DOMAIN rows |-> events[rows[k]]]

(* ------------------------------ the store ------------------------------ *)
Rows == Len(users) + Len(iap) + Len(ledger) + Len(events)

NoRes == [op |-> "none"]

InsertUser(t) ==
    /\ Rows < MaxRows
    /\ users' = Append(users, [id |-> Len(users) + 1, created_at |-> t])
    /\ res' = NoRes
    /\ UNCHANGED <<iap, ledger, events, settings, req>>

InsertIap(r) ==
    /\ Rows < MaxRows
    /\ iap' = Append(iap, [id |-> Len(iap) + 1, user_id |-> r.user_id,
                           status |-> r.status, created_at |-> r.created_at])
    /\ res' = NoRes
    /\ UNCHANGED <<users, ledger, events, settings, req>>

InsertLedger(r) ==
    /\ Rows < MaxRows
    /\ ledger' = Append(ledger, [id |-> Len(ledger) + 1, user_id |-> r.user_id,
                                 type |-> r.type, delta |-> r.delta,
                                 created_at |-> r.created_at])
    /\ res' = NoRes
    /\ UNCHANGED <<users, iap, events, settings, req>>

InsertEvent(r) ==
    /\ Rows < MaxRows
    /\ events' = Append(events, [id |-> Len(events) + 1, created_at |-> r.created_at,
                                 trace_id |-> r.trace_id, user_id |-> r.user_id,
                                 job_id |-> r.job_id, event |-> r.event,
                                 payload |-> r.payload])
    /\ res' = NoRes
    /\ UNCHANGED <<users, iap, ledger, settings, req>>

Overview(start, end, segment) ==
    /\ res' = [op |-> "overview", start |-> start, end |-> end, segment |-> segment,
               out |-> get_overview_metrics(start, end, segment)]
    /\ UNCHANGED <<users, iap, ledger, events, settings, req>>

UserDetail(user_id) ==
    /\ res' = [op |-> "user_detail", user_id |-> user_id, out |-> get_user_detail(user_id)]
    /\ UNCHANGED <<users, iap, ledger, events, settings, req>>

Funnel(start, end, segment) ==
    /\ res' = [op |-> "funnel", start |-> start, end |-> end, segment |-> segment,
               steps |-> get_funnel(start, end, segment)]
    /\ UNCHANGED <<users, iap, ledger, events, settings, req>>

Errors(start, end, limit) ==
    /\ \E items \in error_pages(start, end, limit) :
          res' = [op |-> "errors", start |-> start, end |-> end, limit |-> limit,
                  out |-> get_errors(start, end, items)]
    /\ UNCHANGED <<users, iap, ledger, events, settings, req>>

Users(segment, limit, offset) ==
    /\ \E rows \in users_rows(segment, limit, offset) :
          res' = [op |-> "users", segment |-> segment, limit |-> limit, offset |-> offset,
                  out |-> get_users(segment, limit, offset, rows)]
    /\ UNCHANGED <<users, iap, ledger, events, settings, req>>

UserEvents(user_id, start, end, trace_id, job_id, limit, offset) ==
    /\ \E rows \in user_events_rows(user_id, start, end, trace_id, job_id, limit, offset) :
          res' = [op |-> "user_events", user_id |-> user_id, start |-> start, end |-> end,
                  trace_id |-> trace_id, job_id |-> job_id, limit |-> limit,
                  offset |-> offset,
                  out |-> get_user_events(user_id, start, end, trace_id, job_id, rows)]
    /\ UNCHANGED <<users, iap, ledger, events, settings, req>>

UserCredits(user_id, start, end) ==
    /\ \E rows \in user_credits_rows(user_id, start, end) :
          res' = [op |-> "user_credits", user_id |-> user_id, start |-> start, end |-> end,
                  items |-> get_user_credits(rows)]
    /\ UNCHANGED <<users, iap, ledger, events, settings, req>>

UserIap(user_id, start, end) ==
    /\ \E rows \in user_iap_rows(user_id, start, end) :
          res' = [op |-> "user_iap", user_id |-> user_id, start |-> start, end |-> end,
                  items |-> get_user_iap(rows)]
    /\ UNCHANGED <<users, iap, ledger, events, settings, req>>

TraceEvents(trace_id) ==
    /\ \E rows \in trace_events_rows(trace_id) :
          res' = [op |-> "trace_events", trace_id |-> trace_id,
                  items |-> get_trace_events(rows)]
    /\ UNCHANGED <<users, iap, ledger, events, settings, req>>

JobEvents(job_id) ==
    /\ \E rows \in job_events_rows(job_id) :
          res' = [op |-> "job_events", job_id |-> job_id, items |-> get_job_events(rows)]
    /\ UNCHANGED <<users, iap, ledger, events, settings, req>>

(* ----------------------------- the boundary ---------------------------- *)
\* a header or credential text; ascii is whether every character of it is ASCII
Ascii(text) == [text |-> text, ascii |-> TRUE]
NonAscii(text) == [text |-> text, ascii |-> FALSE]

\* secrets.compare_digest(a, b) of a supplied text and a configured ASCII
\* string: TypeError for a supplied text with a non-ASCII character
compare_digest(a, b) ==
    IF ~a.ascii THEN "TypeError" ELSE IF a.text = b THEN "T" ELSE "F"

\* verify_admin without the second branch: the token alone lets a request in
verify_admin_token_only(credentials, admin_token) ==
    LET token ==
            IF admin_token = Null \/ admin_token[1].text = "" THEN "F"
            ELSE compare_digest(admin_token[1], settings.admin_token)
    IN IF token = "TypeError" THEN "TypeError"
       ELSE IF token = "T" THEN "return"
       ELSE "401"

\* "return", "401" (HTTPException) or "TypeError" (raised by compare_digest)
verify_admin(credentials, admin_token) ==
    LET token ==
            IF admin_token = Null \/ admin_token[1].text = "" THEN "F"
            ELSE compare_digest(admin_token[1], settings.admin_token)
    IN IF token = "TypeError" THEN "TypeError"
       ELSE IF token = "T" THEN "return"
       ELSE IF \/ settings.admin_basic_username = Null
               \/ settings.admin_basic_password = Null
               \/ credentials = Null
            THEN "401"
       ELSE LET username ==
                    compare_digest(credentials[1].username, settings.admin_basic_username[1])
                password ==
                    compare_digest(credentials[1].password, settings.admin_basic_password[1])
            IN IF username = "TypeError" THEN "TypeError"
               ELSE IF username = "F" THEN "401"
               ELSE IF password = "TypeError" THEN "TypeError"
               ELSE IF password = "T" THEN "return"
               ELSE "401"

\* the routes of the application; all but health are routes of router
Routes ==
    {"health", "overview", "funnel", "users", "user_detail", "user_events",
     "user_credits", "user_iap", "trace_events", "job_events", "errors"}

RouterRoutes == Routes \ {"health"}

\* the routes and pages that take a window
WindowRoutes == {"overview", "funnel", "errors"}

\* the range test with the equal bounds let through
invalid_range_strict(start, end) == start > end

\* "if start >= end" of overview, funnel, errors and of the console's pages
invalid_range(start, end) == start >= end

\* the k-th count query of get_overview_metrics, with the paying-active count
\* taken over the request's own segment
overview_stmt_own_segment(k, start, end, segment) ==
    CASE k = 1 -> new_users_stmt(start, end, segment)
      [] k = 2 -> active_users_stmt(start, end, segment)
      [] k = 3 -> jobs_stmt(start, end, segment, JOB_STARTED_EVENTS)
      [] k = 4 -> jobs_stmt(start, end, segment, JOB_SUCCEEDED_EVENTS)
      [] k = 5 -> jobs_stmt(start, end, segment, JOB_FAILED_EVENTS)
      [] k = 6 -> active_users_stmt(start, end, segment)

\* the k-th count query of get_overview_metrics, on the present store
overview_stmt(k, start, end, segment) ==
    CASE k = 1 -> new_users_stmt(start, end, segment)
      [] k = 2 -> active_users_stmt(start, end, segment)
      [] k = 3 -> jobs_stmt(start, end, segment, JOB_STARTED_EVENTS)
      [] k = 4 -> jobs_stmt(start, end, segment, JOB_SUCCEEDED_EVENTS)
      [] k = 5 -> jobs_stmt(start, end, segment, JOB_FAILED_EVENTS)
      [] k = 6 -> active_users_stmt(start, end, "paying")

\* the record get_overview_metrics returns from its six counts
overview_record(segment, m) ==
    [ new_users |-> m[1], active_users |-> m[2], jobs_started |-> m[3],
      jobs_succeeded |-> m[4], jobs_failed |-> m[5],
      conversion_to_pay |-> conversion(segment, m[2], m[6]) ]

\* the arguments the boundary passes for the parameters a request leaves out
DefaultUser == 1
DefaultTrace == "t1"
DefaultJob == "j1"
DefaultLimit == 1

\* the responses the core call of a route other than overview can give on the
\* present store
CoreResponses(r) ==
    CASE r.route = "funnel" ->
           { [op |-> "funnel", start |-> r.start, end |-> r.end, segment |-> r.segment,
              steps |-> get_funnel(r.start, r.end, r.segment)] }
      [] r.route = "errors" ->
           { [op |-> "errors", start |-> r.start, end |-> r.end, limit |-> DefaultLimit,
              out |-> get_errors(r.start, r.end, items)] :
             items \in error_pages(r.start, r.end, DefaultLimit) }
      [] r.route = "users" ->
           { [op |-> "users", segment |-> r.segment, limit |-> DefaultLimit, offset |-> 0,
              out |-> get_users(r.segment, DefaultLimit, 0, rows)] :
             rows \in users_rows(r.segment, DefaultLimit, 0) }
      [] r.route = "user_detail" ->
           { [op |-> "user_detail", user_id |-> DefaultUser,
              out |-> get_user_detail(DefaultUser)] }
      [] r.route = "user_events" ->
           { [op |-> "user_events", user_id |-> DefaultUser, start |-> Null, end |-> Null,
              trace_id |-> Null, job_id |-> Null, limit |-> DefaultLimit, offset |-> 0,
              out |-> get_user_events(DefaultUser, Null, Null, Null, Null, rows)] :
             rows \in user_events_rows(DefaultUser, Null, Null, Null, Null, DefaultLimit, 0) }
      [] r.route = "user_credits" ->
           { [op |-> "user_credits", user_id |-> DefaultUser, start |-> Null, end |-> Null,
              items |-> get_user_credits(rows)] :
             rows \in user_credits_rows(DefaultUser, Null, Null) }
      [] r.route = "user_iap" ->
           { [op |-> "user_iap", user_id |-> DefaultUser, start |-> Null, end |-> Null,
              items |-> get_user_iap(rows)] :
             rows \in user_iap_rows(DefaultUser, Null, Null) }
      [] r.route = "trace_events" ->
           { [op |-> "trace_events", trace_id |-> DefaultTrace,
              items |-> get_trace_events(rows)] :
             rows \in trace_events_rows(DefaultTrace) }
      [] r.route = "job_events" ->
           { [op |-> "job_events", job_id |-> DefaultJob,
              items |-> get_job_events(rows)] :
             rows \in job_events_rows(DefaultJob) }

\* no request in progress
Idle ==
    [ pc |-> "idle", client |-> "none", route |-> "none", start |-> 0, end |-> 0,
      segment |-> "all", token |-> Null, credentials |-> Null,
      session |-> "none", closes |-> 0, status |-> "", metrics |-> <<>>, seen |-> <<>>,
      calls |-> 0 ]

\* a request to the application: health has no dependency, every other route
\* has verify_admin ahead of get_session; no response is out for it yet
Receive(r) ==
    /\ req.pc \in {"idle", "done"}
    /\ req' = [Idle EXCEPT !.pc = IF r.route \in RouterRoutes THEN "auth" ELSE "handler",
                           !.client = "http", !.route = r.route, !.start = r.start,
                           !.end = r.end, !.segment = r.segment, !.token = r.token,
                           !.credentials = r.credentials]
    /\ res' = NoRes
    /\ UNCHANGED <<users, iap, ledger, events, settings>>

\* the dependency of router
VerifyAdmin ==
    /\ req.pc = "auth"
    /\ LET outcome == verify_admin(req.credentials, req.token)
       IN req' = IF outcome = "return" THEN [req EXCEPT !.pc = "session"]
                 ELSE IF outcome = "401" THEN [req EXCEPT !.pc = "done", !.status = "401"]
                 ELSE [req EXCEPT !.pc = "done", !.status = "500"]
    /\ UNCHANGED <<users, iap, ledger, events, res, settings>>

\* a page of the console: the range test of render_overview, render_funnel and
\* render_errors, then the fetch
Render(page, start, end, segment) ==
    /\ req.pc \in {"idle", "done"}
    /\ req' = IF page \in WindowRoutes /\ invalid_range(start, end)
              THEN [Idle EXCEPT !.pc = "done", !.client = "ui", !.route = page,
                                !.start = start, !.end = end, !.segment = segment,
                                !.status = "error"]
              ELSE [Idle EXCEPT !.pc = "session", !.client = "ui", !.route = page,
                                !.start = start, !.end = end, !.segment = segment]
    /\ res' = NoRes
    /\ UNCHANGED <<users, iap, ledger, events, settings>>

\* get_session up to its yield
GetSession ==
    /\ req.pc = "session"
    /\ req' = [req EXCEPT !.pc = "handler", !.session = "open"]
    /\ UNCHANGED <<users, iap, ledger, events, res, settings>>

Health ==
    /\ req.pc = "handler"
    /\ req.route = "health"
    /\ req' = [req EXCEPT !.pc = "done", !.status = "200"]
    /\ UNCHANGED <<users, iap, ledger, events, res, settings>>

\* overview, funnel, errors: HTTPException(400) ahead of the core call
Reject ==
    /\ req.pc = "handler"
    /\ req.client = "http"
    /\ req.route \in WindowRoutes
    /\ invalid_range(req.start, req.end)
    /\ req' = [req EXCEPT !.pc = "finally", !.status = "400"]
    /\ UNCHANGED <<users, iap, ledger, events, res, settings>>

\* the request goes on to its core call
Admitted ==
    /\ req.pc = "handler"
    /\ req.route \in RouterRoutes
    /\ ~(req.client = "http" /\ req.route \in WindowRoutes
         /\ invalid_range(req.start, req.end))

\* the handler of a route other than overview: one core call, then the response
Handle ==
    /\ Admitted
    /\ req.route # "overview"
    /\ \E body \in CoreResponses(req) :
          /\ res' = body
          /\ req' = [req EXCEPT !.pc = "finally", !.calls = @ + 1,
                                !.status = IF body.op = "user_detail" /\ body.out = Null
                                           THEN "404" ELSE "200"]
    /\ UNCHANGED <<users, iap, ledger, events, settings>>

\* get_overview_metrics, one count query at a time; the sixth is followed by
\* the return of the record.  seen is the number of rows the store held when
\* the query ran
OverviewQuery ==
    /\ Admitted
    /\ req.route = "overview"
    /\ LET k == Len(req.metrics) + 1
           m == Append(req.metrics, overview_stmt(k, req.start, req.end, req.segment))
       IN /\ req' = [req EXCEPT !.metrics = m, !.seen = Append(@, Rows), !.calls = 1,
                                !.pc = IF k = 6 THEN "finally" ELSE "handler",
                                !.status = IF k = 6 THEN "200" ELSE ""]
          /\ res' = IF k = 6
                    THEN [op |-> "overview", start |-> req.start, end |-> req.end,
                          segment |-> req.segment,
                          out |-> overview_record(req.segment, m)]
                    ELSE res
    /\ UNCHANGED <<users, iap, ledger, events, settings>>

\* a statement of the core call raises (the database fails)
Raise ==
    /\ Admitted
    /\ req' = [req EXCEPT !.pc = "finally", !.status = "500"]
    /\ UNCHANGED <<users, iap, ledger, events, res, settings>>

\* the finally of get_session that runs for a response only
CloseSession_on_response ==
    /\ req.pc = "finally"
    /\ req' = IF req.status = "500" THEN [req EXCEPT !.pc = "done"]
              ELSE [req EXCEPT !.pc = "done", !.session = "closed", !.closes = @ + 1]
    /\ UNCHANGED <<users, iap, ledger, events, res, settings>>

\* the finally of get_session: session.close()
CloseSession ==
    /\ req.pc = "finally"
    /\ req' = [req EXCEPT !.pc = "done", !.session = "closed", !.closes = @ + 1]
    /\ UNCHANGED <<users, iap, ledger, events, res, settings>>

\* the steps of a request once it is received
RequestSteps ==
    \/ VerifyAdmin
    \/ GetSession
    \/ Health
    \/ Reject
    \/ Handle
    \/ OverviewQuery
    \/ Raise
    \/ CloseSession

\* ADMIN_TOKEN set, ADMIN_BASIC_USERNAME and ADMIN_BASIC_PASSWORD not set
TokenOnly ==
    [admin_token |-> "secret", admin_basic_username |-> Null,
     admin_basic_password |-> Null]

Init ==
    /\ users = <<>>
    /\ iap = <<>>
    /\ ledger = <<>>
    /\ events = <<>>
    /\ res = NoRes
    /\ settings = TokenOnly
    /\ req = Idle

(* ------------------- the paying set over both signals ------------------ *)
PayingIap == [user_id : UserIds, status : {"verified", "pending"}, created_at : {1}]

PayingLedger ==
    [user_id : {2}, type : {"topup_iap", "topupx", "topup", "spend"}, delta : {0, 1},
     created_at : {1}]

NextPaying ==
    \/ \E t \in RowTimes : InsertUser(t)
    \/ \E r \in PayingIap : InsertIap(r)
    \/ \E r \in PayingLedger : InsertLedger(r)
    \/ \E u \in UserIds : UserDetail(u)

SpecPaying == Init /\ [][NextPaying]_vars

(* -------------------- overview over a segmented store ------------------ *)
IapRows ==
    { [user_id |-> 1, status |-> "verified", created_at |-> 1],
      [user_id |-> 2, status |-> "verified", created_at |-> 1],
      [user_id |-> 1, status |-> "pending", created_at |-> 1] }

LedgerRows == { [user_id |-> 2, type |-> "topup_iap", delta |-> 1, created_at |-> 1] }

OverviewEvents ==
    [created_at : RowTimes, trace_id : {Null},
     user_id : {Null} \cup {Some(u) : u \in UserIds},
     job_id : {Null}, event : {"generate_requested"}, payload : {Null}]

Next ==
    \/ \E t \in RowTimes : InsertUser(t)
    \/ \E r \in IapRows : InsertIap(r)
    \/ \E r \in LedgerRows : InsertLedger(r)
    \/ \E r \in OverviewEvents : InsertEvent(r)
    \/ \E w \in ValidWindows, s \in Segments : Overview(w[1], w[2], s)

Spec == Init /\ [][Next]_vars

(* ------------- overview called directly, with any window --------------- *)
CoreIap == { [user_id |-> 1, status |-> "verified", created_at |-> 1] }

JobEvent(event, user_id) ==
    [created_at |-> 1, trace_id |-> Null, user_id |-> user_id, job_id |-> Null,
     event |-> event, payload |-> Null]

CoreEvents ==
    { JobEvent("generate_requested", Null), JobEvent("generate_requested", Some(1)),
      JobEvent("generate_requested", Some(2)),
      JobEvent("job_succeeded", Null), JobEvent("job_succeeded", Some(1)),
      JobEvent("job_failed", Null), JobEvent("job_failed", Some(2)) }

\* a window that holds the rows, one that holds none, and two with start >= end
CoreWindows == { <<1, 2>>, <<2, 3>>, <<1, 1>>, <<2, 1>> }

NextCore ==
    \/ InsertUser(1)
    \/ \E r \in CoreIap : InsertIap(r)
    \/ \E r \in CoreEvents : InsertEvent(r)
    \/ \E w \in CoreWindows, s \in Segments : Overview(w[1], w[2], s)

SpecCore == Init /\ [][NextCore]_vars

(* ----------------------- funnel over an event log ---------------------- *)
FunnelIap == [user_id : {1}, status : {"verified"}, created_at : {1}]

FunnelEvents ==
    [created_at : RowTimes, trace_id : {Null}, user_id : {Some(u) : u \in UserIds},
     job_id : {Null}, event : {"face_analysis_success"}, payload : {Null}]
    \cup
    [created_at : {1}, trace_id : {Null}, user_id : {Some(u) : u \in UserIds},
     job_id : {Null}, event : {"llm_core_generation_success"}, payload : {Null}]
    \cup
    [created_at : {1}, trace_id : {Null}, user_id : {Null}, job_id : {Null},
     event : {"upload_started"}, payload : {Null}]
    \cup
    [created_at : {1}, trace_id : {Null}, user_id : {Some(1)}, job_id : {Null},
     event : {"upload_started", "generate_requested"}, payload : {Null}]

NextFunnel ==
    \/ \E r \in FunnelIap : InsertIap(r)
    \/ \E r \in FunnelEvents : InsertEvent(r)
    \/ \E w \in ValidWindows, s \in Segments : Funnel(w[1], w[2], s)

SpecFunnel == Init /\ [][NextFunnel]_vars

(* ---------------------- errors over an event log ----------------------- *)
Payload(et, em) == Some([error_type |-> et, error_message |-> em])

ErrorEvent(t, event, payload) ==
    [created_at |-> t, trace_id |-> Null, user_id |-> Null, job_id |-> Null,
     event |-> event, payload |-> payload]

ErrorEvents ==
    { ErrorEvent(1, "job_failed", Payload(JStr("Timeout"), JAbsent)),
      ErrorEvent(1, "job_failed", Payload(JStr("Timeout"), JStr("x"))),
      ErrorEvent(2, "job_failed", Payload(JStr("Timeout"), JNull)),
      ErrorEvent(1, "JOB_FAILED", Null),
      ErrorEvent(1, "job_done", Payload(JNull, JAbsent)),
      ErrorEvent(2, "job_done", Payload(JAbsent, JStr("x"))),
      ErrorEvent(1, "job_done", Payload(JAbsent, JAbsent)) }

Limits == 1..MaxLimit

NextErrors ==
    \/ \E r \in ErrorEvents : InsertEvent(r)
    \/ \E w \in ValidWindows, k \in Limits : Errors(w[1], w[2], k)

SpecErrors == Init /\ [][NextErrors]_vars

(* ------------------ error samples over traced events ------------------- *)
TracedEvent(t, event, payload, trace_id, job_id) ==
    [created_at |-> t, trace_id |-> trace_id, user_id |-> Null, job_id |-> job_id,
     event |-> event, payload |-> payload]

SampleEvents ==
    { TracedEvent(1, "job_failed", Null, Some("t2"), Some("j1")),
      TracedEvent(1, "job_failed", Null, Some("t1"), Null),
      TracedEvent(1, "job_failed", Null, Null, Some("j2")),
      TracedEvent(1, "job_failed", Null, Null, Null),
      TracedEvent(2, "job_failed", Null, Some("t0"), Some("j0")),
      TracedEvent(1, "job_failed", Payload(JStr("Timeout"), JAbsent), Some("t0"), Some("j0")),
      TracedEvent(1, "job_failed", Payload(JStr("Timeout"), JAbsent), Null, Null),
      TracedEvent(1, "job_done", Payload(JAbsent, JAbsent), Some("t0"), Some("j0")) }

NextSamples ==
    \/ \E r \in SampleEvents : InsertEvent(r)
    \/ \E w \in ValidWindows, k \in Limits : Errors(w[1], w[2], k)

SpecSamples == Init /\ [][NextSamples]_vars

(* -------------------- listings over a small store ---------------------- *)
ListingEvent(t, user_id, trace_id, job_id) ==
    [created_at |-> t, trace_id |-> trace_id, user_id |-> user_id, job_id |-> job_id,
     event |-> "upload_started", payload |-> Null]

ListingEvents ==
    { ListingEvent(1, Some(1), Some("t1"), Some("j1")),
      ListingEvent(2, Some(1), Some("t1"), Some("j2")),
      ListingEvent(1, Some(2), Null, Null) }

ListingLedger ==
    { [user_id |-> 1, type |-> "spend", delta |-> 0, created_at |-> 1],
      [user_id |-> 1, type |-> "spend", delta |-> 0, created_at |-> 2],
      [user_id |-> 2, type |-> "topup_iap", delta |-> 1, created_at |-> 1] }

ListingIap ==
    { [user_id |-> 1, status |-> "verified", created_at |-> 1],
      [user_id |-> 1, status |-> "pending", created_at |-> 2] }

\* no window, or the window [1, 2)
ListingWindows == { <<Null, Null>>, <<Some(1), Some(2)>> }

\* user_id, start, end, trace_id, job_id of an event listing: no filter, the
\* window [1, 2), or a trace id together with a job id
EventQueries ==
    { <<1, Null, Null, Null, Null>>, <<2, Null, Null, Null, Null>>,
      <<1, Some(1), Some(2), Null, Null>>, <<1, Null, Null, Some("t1"), Some("j1")>> }

Offsets == {0, 1}

NextListings ==
    \/ \E t \in RowTimes : InsertUser(t)
    \/ \E r \in ListingIap : InsertIap(r)
    \/ \E r \in ListingLedger : InsertLedger(r)
    \/ \E r \in ListingEvents : InsertEvent(r)
    \/ \E s \in Segments, k \in Limits, o \in Offsets : Users(s, k, o)
    \/ \E q \in EventQueries, k \in Limits, o \in Offsets :
          UserEvents(q[1], q[2], q[3], q[4], q[5], k, o)
    \/ \E u \in UserIds, w \in ListingWindows : UserCredits(u, w[1], w[2])
    \/ \E u \in UserIds, w \in ListingWindows : UserIap(u, w[1], w[2])
    \/ TraceEvents("t1")
    \/ \E j \in {"j1", "j2"} : JobEvents(j)

SpecListings == Init /\ [][NextListings]_vars

(* ------------------- requests against a written store ------------------ *)
BasicConfigured ==
    [admin_token |-> "secret", admin_basic_username |-> Some("admin"),
     admin_basic_password |-> Some("pw")]

\* ADMIN_BASIC_USERNAME set without ADMIN_BASIC_PASSWORD
UsernameOnly ==
    [admin_token |-> "secret", admin_basic_username |-> Some("admin"),
     admin_basic_password |-> Null]

Configs == {TokenOnly, BasicConfigured, UsernameOnly}

GoodToken == Some(Ascii("secret"))
GoodBasic == Some([username |-> Ascii("admin"), password |-> Ascii("pw")])
WrongBasic == Some([username |-> Ascii("admin"), password |-> Ascii("wrong")])

\* X-Admin-Token and Basic credentials of a request that does not carry the
\* configured token alone
OtherCredentials ==
    { <<Some(Ascii("")), Null>>, <<Some(Ascii("wrong")), Null>>,
      <<Some(NonAscii("wrong")), Null>>, <<Null, GoodBasic>>, <<Null, WrongBasic>>,
      <<Some(Ascii("wrong")), GoodBasic>> }

Request(route, start, end, segment, token, credentials) ==
    [route |-> route, start |-> start, end |-> end, segment |-> segment,
     token |-> token, credentials |-> credentials]

\* a valid window, and two with start >= end
RequestWindows == { <<1, 2>>, <<1, 1>>, <<2, 1>> }

RequestSegments == {"all", "paying"}

\* one request for every route and every window, with the given credentials
RouteRequests(token, credentials) ==
    {Request(r, 0, 0, "all", token, credentials) : r \in Routes \ WindowRoutes}
    \cup
    {Request(r, w[1], w[2], s, token, credentials) :
        r \in {"overview", "funnel"}, w \in RequestWindows, s \in RequestSegments}
    \cup
    {Request("errors", w[1], w[2], "all", token, credentials) : w \in RequestWindows}

\* requests with the configured token, and one without credentials
HttpRequests ==
    RouteRequests(GoodToken, Null) \cup {Request("overview", 1, 2, "all", Null, Null)}

UiPages == {"overview", "funnel", "errors", "users"}

RequestIap == { [user_id |-> 2, status |-> "verified", created_at |-> 1] }

RequestEvents ==
    { JobEvent("generate_requested", Some(1)), JobEvent("generate_requested", Some(2)) }

NextRequests ==
    \/ InsertUser(1)
    \/ \E r \in RequestIap : InsertIap(r)
    \/ \E r \in RequestEvents : InsertEvent(r)
    \/ \E r \in HttpRequests : Receive(r)
    \/ \E page \in UiPages, w \in RequestWindows, s \in RequestSegments :
          Render(page, w[1], w[2], s)
    \/ RequestSteps

SpecRequests == Init /\ [][NextRequests]_vars

(* -------------------- requests that run to their end ------------------ *)
NextSessions ==
    \/ \E r \in RequestEvents : InsertEvent(r)
    \/ \E r \in HttpRequests : Receive(r)
    \/ \E page \in UiPages, w \in RequestWindows, s \in RequestSegments :
          Render(page, w[1], w[2], s)
    \/ RequestSteps

\* a request that was received is served to its end: the dependencies, the
\* handler and the exit code of get_session run without waiting on anything
SpecSessions == Init /\ [][NextSessions]_vars /\ WF_vars(RequestSteps)

(* ----------------- requests under every configuration ------------------ *)
\* every route with and without the configured token, and one route with
\* every other combination of credentials
AuthRequests ==
    RouteRequests(GoodToken, Null) \cup RouteRequests(Null, Null)
    \cup {Request("overview", 1, 2, "all", c[1], c[2]) : c \in OtherCredentials}

InitAuth ==
    /\ users = <<>>
    /\ iap = <<>>
    /\ ledger = <<>>
    /\ events = <<>>
    /\ res = NoRes
    /\ settings \in Configs
    /\ req = Idle

NextAuth ==
    \/ \E r \in RequestEvents : InsertEvent(r)
    \/ \E r \in AuthRequests : Receive(r)
    \/ RequestSteps

SpecAuth == InitAuth /\ [][NextAuth]_vars

(* ======================== properties: segmentation ===================== *)
IsTopupType(type) == Len(type) >= 6 /\ SubSeq(type, 1, 6) = "topup_"

HasVerifiedIap(u) == \E i \in DOMAIN iap : iap[i].user_id = u /\ iap[i].status = "verified"

HasPositiveTopup(u) ==
    \E i \in DOMAIN ledger :
        ledger[i].user_id = u /\ IsTopupType(ledger[i].type) /\ ledger[i].delta > 0

\* C1: a user id is in the paying set iff it has a verified IapTransaction or a
\* CreditLedger entry of a type beginning "topup_" with delta > 0, whatever the
\* rows' timestamps
C1_PayingIffSignal ==
    \A u \in UserIds :
        u \in paying_user_ids_subquery <=> (HasVerifiedIap(u) \/ HasPositiveTopup(u))

\* membership of a user id in a segment, given the derived paying set
InSegment(segment, u) ==
    \/ segment = "all"
    \/ segment = "paying" /\ u \in paying_user_ids_subquery
    \/ segment = "non_paying" /\ u \notin paying_user_ids_subquery

\* the metrics of the answered window for segment s: the response itself for
\* the segment that was asked, the same query on the same store for the others
MetricsFor(s) ==
    IF s = res.segment THEN res.out ELSE get_overview_metrics(res.start, res.end, s)

\* C2: new_users(all) = new_users(paying) + new_users(non_paying) for every
\* store and window
C2_NewUsersPartition ==
    res.op = "overview" =>
        MetricsFor("all").new_users =
            MetricsFor("paying").new_users + MetricsFor("non_paying").new_users

C2_Witness ==
    /\ res.op = "overview"
    /\ res.segment = "non_paying"
    /\ res.out.new_users = 1
    /\ MetricsFor("all").new_users = 2
    /\ MetricsFor("paying").new_users = 1

\* user ids with an event in [start, end)
ActiveIds(start, end) ==
    {u \in UserIds : \E i \in DOMAIN events :
        /\ events[i].user_id = Some(u)
        /\ start <= events[i].created_at
        /\ events[i].created_at < end}

\* C3: conversion_to_pay is in [0,1]; 0.0 when active_users = 0; 1.0 for paying
\* with active_users > 0; 0.0 for non_paying; for all with active_users > 0 it
\* is (distinct active paying users) / active_users
C3_ConversionToPay ==
    res.op = "overview" =>
        LET c == res.out.conversion_to_pay
            active == res.out.active_users
            payingActive ==
                Cardinality(ActiveIds(res.start, res.end) \cap paying_user_ids_subquery)
        IN /\ c.den > 0 /\ 0 <= c.num /\ c.num <= c.den
           /\ (active = 0 => c = Zero)
           /\ (res.segment = "paying" /\ active > 0 => c = One)
           /\ (res.segment = "non_paying" => c = Zero)
           /\ (res.segment = "all" /\ active > 0 =>
                  /\ c.num * active = payingActive * c.den
                  /\ Gcd(c.num, c.den) = 1)

C3_Witness ==
    /\ res.op = "overview"
    /\ res.segment = "all"
    /\ res.out.active_users = 2
    /\ res.out.conversion_to_pay = [num |-> 1, den |-> 2]

\* C4: active_users is the number of distinct non-null user ids of in-window
\* events whose user is in the segment, new_users the number of users created
\* in the window and in the segment; the window is [start, end)
C4_WindowCounts ==
    res.op = "overview" =>
        /\ res.out.active_users =
              Cardinality({u \in ActiveIds(res.start, res.end) : InSegment(res.segment, u)})
        /\ res.out.new_users =
              Cardinality({i \in DOMAIN users :
                  /\ res.start <= users[i].created_at
                  /\ users[i].created_at < res.end
                  /\ InSegment(res.segment, users[i].id)})

C4_Witness ==
    /\ res.op = "overview"
    /\ res.segment = "all"
    /\ \E i, j \in DOMAIN users :
          users[i].created_at = res.start /\ users[j].created_at = res.end
    /\ \E i \in DOMAIN events : events[i].created_at = res.end
    /\ res.out.new_users = 1
    /\ res.out.active_users = 0

\* no User row and no EventLog row has created_at in the answered window
EmptyWindow ==
    /\ \A i \in DOMAIN users :
          ~(res.start <= users[i].created_at /\ users[i].created_at < res.end)
    /\ \A i \in DOMAIN events :
          ~(res.start <= events[i].created_at /\ events[i].created_at < res.end)

\* C13: when the window holds no row, also when start >= end, the five counts
\* are 0 and conversion_to_pay is 0.0, for every segment
C13_EmptyWindowZero ==
    (res.op = "overview" /\ EmptyWindow) =>
        /\ res.out.new_users = 0
        /\ res.out.active_users = 0
        /\ res.out.jobs_started = 0
        /\ res.out.jobs_succeeded = 0
        /\ res.out.jobs_failed = 0
        /\ res.out.conversion_to_pay = Zero

C13_Witness ==
    /\ res.op = "overview"
    /\ res.start >= res.end
    /\ res.segment = "paying"
    /\ users # <<>>
    /\ \E i \in DOMAIN events : events[i].user_id = Some(1)
    /\ 1 \in paying_user_ids_subquery
    /\ res.out.conversion_to_pay = Zero

\* in-window events named in names that carry no user id
NullUserJobs(names) ==
    Cardinality({i \in DOMAIN events :
        /\ res.start <= events[i].created_at
        /\ events[i].created_at < res.end
        /\ events[i].event \in names
        /\ events[i].user_id = Null})

C5_FunnelConversion ==
    res.op = "funnel" =>
        /\ res.steps[1].conversion_from_prev = One
        /\ \A i \in 2..Len(res.steps) :
              LET c == res.steps[i].conversion_from_prev
                  prev == res.steps[i - 1].count
                  count == res.steps[i].count
              IN IF prev = 0 THEN c = Zero
                 ELSE /\ c.den > 0
                      /\ Gcd(c.num, c.den) = 1
                      /\ c.num * prev = count * c.den
                      /\ (count > prev => c.num > c.den)

C5_Witness ==
    /\ res.op = "funnel"
    /\ res.steps[1].count = 0
    /\ res.steps[2].count = 1
    /\ res.steps[2].conversion_from_prev = Zero
    /\ res.steps[3].count = 2
    /\ res.steps[3].conversion_from_prev = [num |-> 2, den |-> 1]

\* user ids, in the segment, with an in-window event named e
StepUsers(e, start, end, segment) ==
    {u \in UserIds :
        /\ InSegment(segment, u)
        /\ \E i \in DOMAIN events :
              /\ events[i].event = e
              /\ events[i].user_id = Some(u)
              /\ start <= events[i].created_at
              /\ events[i].created_at < end}

\* C6: get_funnel returns one entry per funnel step, in the fixed order, each
\* with the number of distinct non-null user ids of the segment that have an
\* in-window event of that name, 0 when there is none
C6_FunnelSteps ==
    res.op = "funnel" =>
        /\ Len(res.steps) = 5
        /\ res.steps[1].event = "upload_started"
        /\ res.steps[2].event = "face_analysis_success"
        /\ res.steps[3].event = "llm_core_generation_success"
        /\ res.steps[4].event = "llm_image_prompt_success"
        /\ res.steps[5].event = "image_generation_success"
        /\ \A i \in 1..5 :
              res.steps[i].count =
                  Cardinality(StepUsers(res.steps[i].event, res.start, res.end, res.segment))

C6_Witness ==
    /\ res.op = "funnel"
    /\ res.segment = "non_paying"
    /\ res.steps[1].count = 0
    /\ res.steps[2].count = 1
    /\ \E i \in DOMAIN events :
          /\ events[i].event = "upload_started"
          /\ events[i].user_id = Null
          /\ res.start <= events[i].created_at
          /\ events[i].created_at < res.end
    /\ \E i \in DOMAIN events :
          /\ events[i].event = "face_analysis_success"
          /\ events[i].user_id = Some(2)
          /\ res.start <= events[i].created_at
          /\ events[i].created_at < res.end

(* =========================== properties: errors ======================== *)
\* the letters of "failed", in either case
FailedLetters ==
    << {"f", "F"}, {"a", "A"}, {"i", "I"}, {"l", "L"}, {"e", "E"}, {"d", "D"} >>

ContainsFailed(event) ==
    \E i \in 1..Len(event) :
        /\ i + 5 <= Len(event)
        /\ \A k \in 1..6 : SubSeq(event, i + k - 1, i + k - 1) \in FailedLetters[k]

\* the key is a member of the payload object, whatever its value
KeyPresent(payload, key) == payload # Null /\ payload[1][key].t # "absent"

\* the key is a member of the payload object and its value is not JSON null
ValuePresent(payload, key) == payload # Null /\ payload[1][key].t = "string"

InResWindow(i) == res.start <= events[i].created_at /\ events[i].created_at < res.end

\* C7 as stated: an in-window row is selected iff its event name contains
\* "failed" case-insensitively or its payload has an error_type or an
\* error_message field present
C7_SelectedIffKeyPresent ==
    res.op = "errors" =>
        \A i \in DOMAIN events :
            InResWindow(i) =>
                (i \in error_rows(res.start, res.end) <=>
                    \/ ContainsFailed(events[i].event)
                    \/ KeyPresent(events[i].payload, "error_type")
                    \/ KeyPresent(events[i].payload, "error_message"))

\* an in-window row the log holds an error signal for
IsErrorRow(i) ==
    \/ ContainsFailed(events[i].event)
    \/ ValuePresent(events[i].payload, "error_type")
    \/ ValuePresent(events[i].payload, "error_message")

\* C7 amended: an in-window row is selected iff its event name contains
\* "failed" case-insensitively or its payload has an error_type or an
\* error_message field whose value is not JSON null; every other row (NULL
\* payload, no such key, JSON null value) is selected through its name alone
C7_SelectedIffValuePresent ==
    res.op = "errors" =>
        \A i \in DOMAIN events :
            InResWindow(i) => (i \in error_rows(res.start, res.end) <=> IsErrorRow(i))

C7_Witness ==
    /\ res.op = "errors"
    /\ res.out.total = 2
    /\ \E i, j, k \in DOMAIN events :
          /\ InResWindow(i) /\ InResWindow(j) /\ InResWindow(k)
          /\ events[i].event = "JOB_FAILED" /\ events[i].payload = Null
          /\ events[j].event = "job_done"
          /\ events[j].payload = Payload(JAbsent, JStr("x"))
          /\ events[k].event = "job_done"
          /\ events[k].payload \in {Payload(JNull, JAbsent), Payload(JAbsent, JAbsent)}

\* the text of a payload member, Null when there is none
FieldText(payload, key) ==
    IF ValuePresent(payload, key) THEN Some(payload[1][key].v) ELSE Null

RowKey(i) ==
    <<events[i].event, FieldText(events[i].payload, "error_type"),
      FieldText(events[i].payload, "error_message")>>

ItemKey(g) == <<g.event, g.error_type, g.error_message>>

SelectedRows == {i \in DOMAIN events : InResWindow(i) /\ IsErrorRow(i)}

\* C8: the selected rows are grouped by (event, error_type, error_message),
\* null being a key value of its own: no two returned groups share a key, a
\* group's count is the number of selected rows with its key, and a page that
\* is not full holds the group of every selected row
C8_GroupsByTriple ==
    res.op = "errors" =>
        LET items == res.out.items
        IN /\ \A a, b \in DOMAIN items : a # b => ItemKey(items[a]) # ItemKey(items[b])
           /\ \A a \in DOMAIN items :
                 /\ items[a].count > 0
                 /\ items[a].count =
                       Cardinality({i \in SelectedRows : RowKey(i) = ItemKey(items[a])})
           /\ (Len(items) < res.limit =>
                 \A i \in SelectedRows : \E a \in DOMAIN items : ItemKey(items[a]) = RowKey(i))

C8_Witness ==
    /\ res.op = "errors"
    /\ Len(res.out.items) = 2
    /\ \E a, b \in DOMAIN res.out.items :
          /\ ItemKey(res.out.items[a]) = <<"job_failed", Some("Timeout"), Null>>
          /\ res.out.items[a].count = 2
          /\ ItemKey(res.out.items[b]) = <<"job_failed", Some("Timeout"), Some("x")>>
          /\ res.out.items[b].count = 1

RECURSIVE SumOfCounts(_)
SumOfCounts(groups) ==
    IF groups = {} THEN 0
    ELSE LET g == CHOOSE x \in groups : TRUE IN g.count + SumOfCounts(groups \ {g})

\* C9: total is the number of in-window rows that satisfy the error predicate,
\* which is the sum of the counts of all groups, whatever the limit
C9_TotalIndependentOfLimit ==
    res.op = "errors" =>
        /\ res.out.total = Cardinality(SelectedRows)
        /\ res.out.total = SumOfCounts(error_groups(res.start, res.end))
        /\ \A k \in Limits : \A items \in error_pages(res.start, res.end, k) :
              get_errors(res.start, res.end, items).total = res.out.total

C9_Witness ==
    /\ res.op = "errors"
    /\ res.limit = 1
    /\ res.out.total = 3
    /\ Len(res.out.items) = 1
    /\ res.out.items[1].count = 1

IsPrefix(a, b) == Len(a) <= Len(b) /\ a = SubSeq(b, 1, Len(a))

\* C10: the groups returned with limit k are in non-increasing count order and
\* are the first k of the result for any larger limit, also among equal counts
C10_StableTopK ==
    res.op = "errors" =>
        /\ \A a, b \in DOMAIN res.out.items :
              a < b => res.out.items[a].count >= res.out.items[b].count
        /\ \A k \in Limits :
              k > res.limit =>
                  \A items \in error_pages(res.start, res.end, k) :
                      IsPrefix(res.out.items, items)

\* the selected rows of the answered window that carry the key of group g
GroupMembers(g) == {i \in error_rows(res.start, res.end) : RowKey(i) = ItemKey(g)}

\* C11: in every returned group sample_trace_id is null or the trace_id of a
\* selected row of that group, sample_job_id is null or the job_id of a
\* selected row of that group, and every page the same store can return
\* carries the same samples for the group
C11_SamplesFromGroup ==
    res.op = "errors" =>
        \A a \in DOMAIN res.out.items :
            LET g == res.out.items[a]
            IN /\ \/ g.sample_trace_id = Null
                  \/ \E i \in GroupMembers(g) : events[i].trace_id = g.sample_trace_id
               /\ \/ g.sample_job_id = Null
                  \/ \E i \in GroupMembers(g) : events[i].job_id = g.sample_job_id
               /\ \A k \in Limits : \A items \in error_pages(res.start, res.end, k) :
                     \A b \in DOMAIN items :
                         ItemKey(items[b]) = ItemKey(g) =>
                             /\ items[b].sample_trace_id = g.sample_trace_id
                             /\ items[b].sample_job_id = g.sample_job_id

C11_Witness ==
    /\ res.op = "errors"
    /\ \E a \in DOMAIN res.out.items :
          /\ ItemKey(res.out.items[a]) = <<"job_failed", Null, Null>>
          /\ res.out.items[a].count = 2
          /\ res.out.items[a].sample_trace_id = Some("t1")
          /\ res.out.items[a].sample_job_id = Some("j1")
    /\ \E i \in error_rows(res.start, res.end) : events[i].trace_id = Some("t0")

(* ========================== properties: listings ======================= *)
\* C12: re-running a listing with the same arguments on the unchanged store
\* gives the identical result, also in the order of rows with equal created_at
C12_Idempotent ==
    /\ res.op = "users" =>
          \A rows \in users_rows(res.segment, res.limit, res.offset) :
              get_users(res.segment, res.limit, res.offset, rows) = res.out
    /\ res.op = "user_events" =>
          \A rows \in user_events_rows(res.user_id, res.start, res.end, res.trace_id,
                                       res.job_id, res.limit, res.offset) :
              get_user_events(res.user_id, res.start, res.end, res.trace_id,
                              res.job_id, rows) = res.out
    /\ res.op = "user_credits" =>
          \A rows \in user_credits_rows(res.user_id, res.start, res.end) :
              get_user_credits(rows) = res.items
    /\ res.op = "user_iap" =>
          \A rows \in user_iap_rows(res.user_id, res.start, res.end) :
              get_user_iap(rows) = res.items
    /\ res.op = "trace_events" =>
          \A rows \in trace_events_rows(res.trace_id) : get_trace_events(rows) = res.items
    /\ res.op = "job_events" =>
          \A rows \in job_events_rows(res.job_id) : get_job_events(rows) = res.items

MostRecentFirst(items) ==
    \A a, b \in DOMAIN items : a < b => items[a].created_at >= items[b].created_at

Chronological(items) ==
    \A a, b \in DOMAIN items : a < b => items[a].created_at <= items[b].created_at

\* start <= t < end, for the bounds that were supplied
InSuppliedWindow(t, start, end) ==
    /\ start # Null => start[1] <= t
    /\ end # Null => t < end[1]

\* C17: get_users, get_user_events, get_user_credits and get_user_iap return
\* their items most recent first, get_trace_events and get_job_events in
\* chronological order, and every returned item satisfies every filter that
\* was supplied (user id, trace id, job id, start <= created_at < end)
C17_ListingOrder ==
    /\ res.op = "users" => MostRecentFirst(res.out.items)
    /\ res.op = "user_events" =>
          /\ MostRecentFirst(res.out.items)
          /\ \A a \in DOMAIN res.out.items :
                LET item == res.out.items[a]
                IN /\ item.user_id = Some(res.user_id)
                   /\ InSuppliedWindow(item.created_at, res.start, res.end)
                   /\ res.trace_id # Null => item.trace_id = res.trace_id
                   /\ res.job_id # Null => item.job_id = res.job_id
    /\ res.op \in {"user_credits", "user_iap"} =>
          /\ MostRecentFirst(res.items)
          /\ \A a \in DOMAIN res.items :
                /\ res.items[a].user_id = res.user_id
                /\ InSuppliedWindow(res.items[a].created_at, res.start, res.end)
    /\ res.op = "trace_events" =>
          /\ Chronological(res.items)
          /\ \A a \in DOMAIN res.items : res.items[a].trace_id = Some(res.trace_id)
    /\ res.op = "job_events" =>
          /\ Chronological(res.items)
          /\ \A a \in DOMAIN res.items : res.items[a].job_id = Some(res.job_id)

C17_Witness ==
    /\ res.op = "user_events"
    /\ res.user_id = 1
    /\ Len(res.out.items) = 2
    /\ res.out.items[1].created_at = 2
    /\ res.out.items[2].created_at = 1
    /\ \E i \in DOMAIN events : events[i].user_id = Some(2)

\* C18: get_user_credits, get_user_iap and get_user_events each return at most
\* limit items, the rows at positions offset .. offset+limit-1 of the
\* most-recent-first list of matching rows; a listing that takes no limit is
\* held to the largest limit a caller can ask for
C18_Paginated ==
    /\ res.op = "user_events" =>
          /\ Len(res.out.items) <= res.limit
          /\ \E o \in order_by_desc(events,
                         user_events_stmt(res.user_id, res.start, res.end,
                                          res.trace_id, res.job_id)) :
                res.out.items =
                    [k \in 1..Len(res.out.items) |-> events[o[res.offset + k]]]
    /\ res.op = "user_credits" => Len(res.items) <= MaxLimit
    /\ res.op = "user_iap" => Len(res.items) <= MaxLimit

(* ========================== properties: boundary ======================= *)
\* C14: a session acquired through get_session is closed exactly once,
\* whether the core call returns or raises: it is never closed twice, no
\* request ends with its session open, and an open session is eventually
\* closed
C14_SessionsClosed ==
    /\ [](req.closes <= 1)
    /\ [](req.pc = "done" => req.session # "open")
    /\ (req.session = "open") ~> (req.session = "closed" /\ req.closes = 1)

C14_Witness ==
    /\ req.pc = "done"
    /\ req.status = "500"
    /\ req.session = "closed"
    /\ req.closes = 1

\* the k-th count of the overview, counted on the present store
CountNow(k) ==
    LET now == get_overview_metrics(req.start, req.end, req.segment)
    IN CASE k = 1 -> now.new_users
         [] k = 2 -> now.active_users
         [] k = 3 -> now.jobs_started
         [] k = 4 -> now.jobs_succeeded
         [] k = 5 -> now.jobs_failed
         [] k = 6 -> Cardinality(ActiveIds(req.start, req.end)
                                 \cap paying_user_ids_subquery)

\* C15: each count of a get_overview_metrics call is the count on the store as
\* it was when its own query ran (a count taken since the last write is the
\* count on the present store), and a call no write fell into returns the
\* record of one store state
C15_MetricsPerQuery ==
    req.route = "overview" =>
        /\ \A k \in DOMAIN req.metrics :
              req.seen[k] = Rows => req.metrics[k] = CountNow(k)
        /\ (Len(req.metrics) = 6 /\ \A k \in 1..6 : req.seen[k] = Rows) =>
              overview_record(req.segment, req.metrics) =
                  get_overview_metrics(req.start, req.end, req.segment)

\* a returned record that is the overview of no store state: one active user
\* next to two started jobs of two users
C15_Witness ==
    /\ req.route = "overview"
    /\ req.segment = "all"
    /\ Len(req.metrics) = 6
    /\ req.seen[2] < req.seen[3]
    /\ req.metrics[2] = 1
    /\ req.metrics[3] = 2
    /\ req.metrics[6] = 1
    /\ res.op = "overview"
    /\ res.out.conversion_to_pay = One
    /\ get_overview_metrics(req.start, req.end, req.segment).conversion_to_pay
           = [num |-> 1, den |-> 2]

\* C16: a request for overview, funnel or errors with start >= end makes no
\* core call; over HTTP the handler answers 400, in the console the page
\* shows an error and opens no session
C16_InvalidRangeRejected ==
    (req.route \in WindowRoutes /\ req.start >= req.end) =>
        /\ req.calls = 0
        /\ req.metrics = <<>>
        /\ res = NoRes
        /\ (req.client = "http" /\ req.pc \in {"finally", "done"}) => req.status = "400"
        /\ req.client = "ui" =>
              req.pc = "done" /\ req.status = "error" /\ req.session = "none"

C16_Witness ==
    /\ req.client = "http"
    /\ req.route = "errors"
    /\ req.start = req.end
    /\ req.pc = "done"
    /\ req.status = "400"
    /\ req.session = "closed"
    /\ events # <<>>

\* the request carries the configured token, or Basic credentials equal to a
\* configured username and password
Authorized ==
    \/ /\ req.token # Null
       /\ req.token[1].text # ""
       /\ req.token[1].text = settings.admin_token
    \/ /\ settings.admin_basic_username # Null
       /\ settings.admin_basic_password # Null
       /\ req.credentials # Null
       /\ req.credentials[1].username.text = settings.admin_basic_username[1]
       /\ req.credentials[1].password.text = settings.admin_basic_password[1]

\* C20: on every route of router verify_admin runs ahead of the handler; it
\* lets the request through iff the request is authorized, and every other
\* request is answered 401 with no session and no core call
C20_AuthGate ==
    (req.client = "http" /\ req.route \in RouterRoutes /\ req.pc # "auth") =>
        IF Authorized THEN req.status # "401" /\ (req.pc = "done" => req.session = "closed")
        ELSE /\ req.pc = "done"
             /\ req.status = "401"
             /\ req.session = "none"
             /\ req.calls = 0

====
